---- MODULE Spec2Model ----
(***************************************************************************)
(* Header assembly of the formatter (src/src/header.rs): the HeaderPart    *)
(* constructors and the format_header fold, together with the comment      *)
(* merger, the snippet lookup and the Mixed list layout they rely on.      *)
(*                                                                         *)
(* Text is a sequence of one-character strings; a Span is a half-open byte *)
(* range [lo, hi) into the source buffer src, offsets counted from 0.      *)
(***************************************************************************)
EXTENDS Integers, Sequences, FiniteSets, TLC

VARIABLES
    src,      \* the original source buffer (SnippetProvider)
    ast,      \* the syntax-tree nodes of the header under formatting
    inShape,  \* the Shape the caller passes to format_header
    parts,    \* Vec<HeaderPart> built by the caller
    pc,       \* position of the call
    shape,    \* format_header: local `shape`
    iter,     \* format_header: the filtered iterator `parts`, what is left of it
    result,   \* format_header: local `result`
    span,     \* format_header: local `span`
    calls,    \* the calls made to combine_strs_with_missing_comments, in order
    todo,     \* the constructor calls the caller has still to make
    items,    \* list layout: the items
    lcfg,     \* list layout: width, indent, trailing separator policy
    lidx,     \* list layout: items written so far
    lineLen,  \* list layout: width used on the current line
    out       \* list layout: the text written so far

vars == <<src, ast, inShape, parts, pc, shape, iter, result, span, calls, todo,
          items, lcfg, lidx, lineLen, out>>

headerVars == <<src, ast, inShape, parts, shape, iter, result, span, calls, todo>>
listVars == <<items, lcfg, lidx, lineLen, out>>

----------------------------------------------------------------------------
(* Bounds of the model *)

MaxIndent == 1
MaxWidth == 8
MaxSegs == 2
MaxItems == 3
MaxItemLen == 3
MaxListWidth == 7

----------------------------------------------------------------------------
(* Text *)

SP == " "
NL == "\n"

Min(S) == CHOOSE x \in S : \A y \in S : x <= y
Max(S) == CHOOSE x \in S : \A y \in S : x >= y

RECURSIVE Flatten(_)
Flatten(ss) == IF ss = <<>> THEN <<>> ELSE Head(ss) \o Flatten(Tail(ss))

RECURSIVE JoinWith(_, _)
JoinWith(ss, sep) ==
    IF ss = <<>> THEN <<>>
    ELSE IF Len(ss) = 1 THEN ss[1]
    ELSE ss[1] \o sep \o JoinWith(Tail(ss), sep)

Spaces(n) == [i \in 1..n |-> SP]

\* s occurs in t at 1-based position p
OccursAt(t, s, p) ==
    /\ p >= 1
    /\ p + Len(s) - 1 <= Len(t)
    /\ \A k \in 1..Len(s) : t[p + k - 1] = s[k]

\* least position >= from at which s occurs in t, 0 if none
FindFrom(t, s, from) ==
    LET ps == {p \in from..(Len(t) - Len(s) + 1) : OccursAt(t, s, p)}
    IN IF ps = {} THEN 0 ELSE Min(ps)

CountOcc(t, s) == Cardinality({p \in 1..Len(t) : OccursAt(t, s, p)})

\* width of the last line of t
LastLineWidth(t) ==
    LET nls == {p \in 1..Len(t) : t[p] = NL}
    IN IF nls = {} THEN Len(t) ELSE Len(t) - Max(nls)

----------------------------------------------------------------------------
(* Spans and the source buffer *)

MkSp(lo, hi) == IF lo > hi THEN [lo |-> hi, hi |-> lo] ELSE [lo |-> lo, hi |-> hi]

DUMMY_SP == [lo |-> 0, hi |-> 0]

\* Span::between: from the end of a to the start of b
Between(a, b) == MkSp(a.hi, b.lo)

\* SnippetProvider.textOf
Snippet(buf, sp) == SubSeq(buf, sp.lo + 1, sp.hi)

----------------------------------------------------------------------------
(* The comment recognizer: decomposes a raw gap text into whitespace and   *)
(* comments.  ranges are the comments found, as 1-based inclusive index    *)
(* ranges into the text; ok is FALSE when something else is in the text.   *)

BlockOpen == <<"/", "*">>
BlockClose == <<"*", "/">>
LineOpen == <<"/", "/">>

RECURSIVE LexFrom(_, _, _, _)
LexFrom(text, i, acc, ok) ==
    IF i > Len(text) THEN [ok |-> ok, ranges |-> acc]
    ELSE IF text[i] \in {SP, NL} THEN LexFrom(text, i + 1, acc, ok)
    ELSE IF OccursAt(text, BlockOpen, i) THEN
        LET e == FindFrom(text, BlockClose, i + 2)
        IN IF e = 0 THEN [ok |-> FALSE, ranges |-> acc]
           ELSE LexFrom(text, e + 2, Append(acc, [lo |-> i, hi |-> e + 1]), ok)
    ELSE IF OccursAt(text, LineOpen, i) THEN
        LET n == FindFrom(text, <<NL>>, i)
            e == IF n = 0 THEN Len(text) ELSE n - 1
        IN LexFrom(text, e + 1, Append(acc, [lo |-> i, hi |-> e]), ok)
    ELSE LexFrom(text, i + 1, acc, FALSE)

Lex(text) == LexFrom(text, 1, <<>>, TRUE)

\* the comments of a raw text, verbatim, in order
CommentsOf(text) ==
    LET r == Lex(text).ranges
    IN [k \in 1..Len(r) |-> SubSeq(text, r[k].lo, r[k].hi)]

----------------------------------------------------------------------------
(* Shape *)

Shapes ==
    [width : {0, MaxWidth}, indent : {0, MaxIndent}, unbounded : {FALSE}]

InfiniteWidth(sh) == [sh EXCEPT !.unbounded = TRUE]

WidthAllows(sh, n) == sh.unbounded \/ n <= sh.width

NewlineIndent(sh) == <<NL>> \o Spaces(sh.indent)

----------------------------------------------------------------------------
(* CommentMerger.combine: ok with the merged text, or a CommentMergeError  *)

CombineStrsWithMissingComments(buf, prev, next, gap, sh, allowExtend) ==
    LET raw == Snippet(buf, gap)
        lexed == Lex(raw)
        comments == CommentsOf(raw)
        nl == NewlineIndent(sh)
    IN IF ~lexed.ok THEN [ok |-> FALSE, val |-> <<>>]
       ELSE IF comments = <<>> THEN
           IF allowExtend /\ WidthAllows(sh, LastLineWidth(prev) + 1 + Len(next))
           THEN [ok |-> TRUE, val |-> prev \o <<SP>> \o next]
           ELSE [ok |-> TRUE, val |-> prev \o nl \o next]
       ELSE [ok |-> TRUE,
             val |-> prev \o nl \o JoinWith(comments, nl) \o nl \o next]

----------------------------------------------------------------------------
(* SnippetProvider.byteOffsetOfKeyword: the offset of the keyword inside   *)
(* the enclosing span, comments skipped.  Callers pass a span that holds   *)
(* the keyword.                                                            *)

SpanBefore(buf, sp, needle) ==
    LET text == Snippet(buf, sp)
        r == Lex(text).ranges
        inComment(p) == \E k \in 1..Len(r) : r[k].lo <= p /\ p <= r[k].hi
        ps == {p \in 1..Len(text) : OccursAt(text, needle, p) /\ ~inComment(p)}
    IN IF ps = {} THEN sp.hi ELSE sp.lo + Min(ps) - 1

----------------------------------------------------------------------------
(* HeaderPart and its constructors *)

PUB == <<"p", "u", "b">>
UNSAFE == <<"u", "n", "s", "a", "f", "e">>
SAFE == <<"s", "a", "f", "e">>
CRATE == <<"c", "r", "a", "t", "e">>
SELF == <<"s", "e", "l", "f">>
SUPER == <<"s", "u", "p", "e", "r">>
FN == <<"f", "n">>
FOO == <<"f", "o", "o">>
SOME == <<"s", "o", "m", "e">>
MOD == <<"m", "o", "d">>
PATHSEP == <<":", ":">>

HeaderPartNew(snippet, sp) == [snippet |-> snippet, span |-> sp]

\* rewrite_ident: the identifier as written
RewriteIdent(ident) == ident.name

\* HeaderPart::ident
IdentPart(ident) == HeaderPartNew(RewriteIdent(ident), ident.span)

\* `.expect("Non-global path in pub(restricted)?")` on an exhausted iterator
VisibilityPanics(vis) ==
    /\ vis.kind = "Restricted"
    /\ vis.path.global
    /\ vis.path.segments = <<>>

\* variant: the root segment is not consumed
SegmentsIterKeepsRoot(path) == path.segments

\* segments_iter after the optional `.next()`
SegmentsIter(path) ==
    IF path.global THEN Tail(path.segments) ELSE path.segments

\* variant: super is not taken for a keyword
IsKeywordNoSuper(s) == s = CRATE \/ s = SELF

IsKeyword(s) == s = CRATE \/ s = SELF \/ s = SUPER

InStr(path) == IF IsKeyword(path) THEN <<>> ELSE <<"i", "n", " ">>

VisibilitySnippet(vis) ==
    CASE vis.kind = "Public" -> PUB
      [] vis.kind = "Inherited" -> <<>>
      [] vis.kind = "Restricted" ->
            LET it == SegmentsIter(vis.path)
                path == JoinWith([k \in 1..Len(it) |-> RewriteIdent(it[k])], PATHSEP)
            IN PUB \o <<"(">> \o InStr(path) \o path \o <<")">>

\* HeaderPart::visibility (when it does not panic)
Visibility(vis) == HeaderPartNew(VisibilitySnippet(vis), vis.span)

\* HeaderPart::safety
Safety(safety) ==
    CASE safety.kind = "Unsafe" -> HeaderPartNew(UNSAFE, safety.span)
      [] safety.kind = "Safe" -> HeaderPartNew(SAFE, safety.span)
      [] safety.kind = "Default" -> HeaderPartNew(<<>>, DUMMY_SP)

\* variant: the span covers one byte only
KeywordHiOneByte(lo, keyword) == lo + 1

KeywordHi(lo, keyword) == lo + Len(keyword)

\* HeaderPart::keyword
Keyword(buf, keyword, sp) ==
    LET lo == SpanBefore(buf, sp, keyword)
        hi == KeywordHi(lo, keyword)
    IN HeaderPartNew(keyword, MkSp(lo, hi))

----------------------------------------------------------------------------
(* The inputs: a source buffer holding a header                            *)
(*     <visibility> g1 <safety> g2 fn g3 foo                               *)
(* after a leading comment line, and the syntax-tree nodes with the spans  *)
(* the parser gives them.  A gap follows a qualifier only when the         *)
(* qualifier is written.                                                   *)

Prefix == <<"/", "*", "p", "*", "/", NL>>

GapTexts ==
    { <<SP>>,
      <<SP, "/", "*", "c", "*", "/", SP>>,
      <<"/", "*", "f", "n", "*", "/">>,
      <<SP, "#", SP>>,
      <<SP, "/", "*", "c", "*", "/", SP, "#", SP>>,
      <<"/", "*", "c", "*", "/", SP, "/", "/", "l", NL>> }

HeaderVisKinds == {"Inherited", "Public", "Restricted"}
SafetyKinds == {"Default", "Unsafe", "Safe"}

VisSource(v) ==
    CASE v = "Inherited" -> <<>>
      [] v = "Public" -> PUB
      [] v = "Restricted" -> PUB \o <<"(">> \o CRATE \o <<")">>

SafetySource(s) ==
    CASE s = "Default" -> <<>>
      [] s = "Unsafe" -> UNSAFE
      [] s = "Safe" -> SAFE

NoPath == [global |-> FALSE, segments |-> <<>>]

Source(v, s, g1, g2, g3) ==
    Prefix
      \o VisSource(v) \o (IF VisSource(v) = <<>> THEN <<>> ELSE g1)
      \o SafetySource(s) \o (IF SafetySource(s) = <<>> THEN <<>> ELSE g2)
      \o FN \o g3 \o FOO

Ast(v, s, g1, g2, g3) ==
    LET p0 == Len(Prefix)
        visHi == p0 + Len(VisSource(v))
        safLo == visHi + (IF VisSource(v) = <<>> THEN 0 ELSE Len(g1))
        safHi == safLo + Len(SafetySource(s))
        qualHi == IF SafetySource(s) = <<>> THEN visHi ELSE safHi
        kwLo == safHi + (IF SafetySource(s) = <<>> THEN 0 ELSE Len(g2))
        idLo == kwLo + Len(FN) + Len(g3)
    IN [vis |-> [kind |-> v,
                 path |-> IF v = "Restricted"
                          THEN [global |-> FALSE,
                                segments |-> <<[name |-> CRATE,
                                                span |-> MkSp(p0 + 4, p0 + 9)]>>]
                          ELSE NoPath,
                 span |-> MkSp(p0, visHi)],
        safety |-> [kind |-> s,
                    span |-> IF s = "Default" THEN DUMMY_SP ELSE MkSp(safLo, safHi)],
        kw |-> [keyword |-> FN, span |-> MkSp(qualHi, idLo)],
        ident |-> [name |-> FOO, span |-> MkSp(idLo, idLo + Len(FOO))]]

\* the constructor calls a caller makes, in order
Callers ==
    { <<>>,
      <<"visibility", "safety">>,
      <<"visibility", "safety", "keyword">>,
      <<"visibility", "safety", "keyword", "ident">>,
      <<"keyword", "ident">> }

NoShape == [width |-> 0, indent |-> 0, unbounded |-> FALSE]
NoList == [width |-> 0, indent |-> 0, policy |-> "Never"]

InitList ==
    /\ items = <<>>
    /\ lcfg = NoList
    /\ lidx = 0
    /\ lineLen = 0
    /\ out = <<>>

InitLocals ==
    /\ parts = <<>>
    /\ pc = "build"
    /\ shape = NoShape
    /\ iter = <<>>
    /\ result = <<>>
    /\ span = DUMMY_SP
    /\ calls = <<>>

Init ==
    /\ \E v \in HeaderVisKinds, s \in SafetyKinds, g1 \in GapTexts,
          g2 \in GapTexts, g3 \in GapTexts :
          /\ src = Source(v, s, g1, g2, g3)
          /\ ast = Ast(v, s, g1, g2, g3)
    /\ inShape \in Shapes
    /\ todo \in Callers
    /\ InitLocals
    /\ InitList

----------------------------------------------------------------------------
(* The caller builds the parts *)

BuildVisibility ==
    /\ pc = "build"
    /\ todo # <<>>
    /\ Head(todo) = "visibility"
    /\ IF VisibilityPanics(ast.vis)
       THEN /\ pc' = "panic"
            /\ UNCHANGED <<parts, todo>>
       ELSE /\ parts' = Append(parts, Visibility(ast.vis))
            /\ todo' = Tail(todo)
            /\ pc' = "build"
    /\ UNCHANGED <<src, ast, inShape, shape, iter, result, span, calls>>
    /\ UNCHANGED listVars

BuildSafety ==
    /\ pc = "build"
    /\ todo # <<>>
    /\ Head(todo) = "safety"
    /\ parts' = Append(parts, Safety(ast.safety))
    /\ todo' = Tail(todo)
    /\ UNCHANGED <<src, ast, inShape, pc, shape, iter, result, span, calls>>
    /\ UNCHANGED listVars

BuildKeyword ==
    /\ pc = "build"
    /\ todo # <<>>
    /\ Head(todo) = "keyword"
    /\ parts' = Append(parts, Keyword(src, ast.kw.keyword, ast.kw.span))
    /\ todo' = Tail(todo)
    /\ UNCHANGED <<src, ast, inShape, pc, shape, iter, result, span, calls>>
    /\ UNCHANGED listVars

BuildIdent ==
    /\ pc = "build"
    /\ todo # <<>>
    /\ Head(todo) = "ident"
    /\ parts' = Append(parts, IdentPart(ast.ident))
    /\ todo' = Tail(todo)
    /\ UNCHANGED <<src, ast, inShape, pc, shape, iter, result, span, calls>>
    /\ UNCHANGED listVars

----------------------------------------------------------------------------
(* format_header *)

\* variant: the caller's width is kept
FormatShapeKeepsWidth(sh) == sh

\* `let shape = shape.infinite_width();`
FormatShape(sh) == InfiniteWidth(sh)

\* variant: nothing is filtered out
NonEmptyPartsUnfiltered(ps) == ps

\* `parts.into_iter().filter(|x| !x.snippet.is_empty())`
NonEmptyParts(ps) == SelectSeq(ps, LAMBDA x : x.snippet # <<>>)

\* variant: the fallback loses the separating space
FallbackNoSpace(res, part) == res \o part.snippet

\* variant: the fallback puts the new part first
FallbackSwapped(res, part) == part.snippet \o <<SP>> \o res

\* `.unwrap_or_else(|_| format!("{} {}", &result, part.snippet))`
Fallback(res, part) == res \o <<SP>> \o part.snippet

\* variant: the running position moves only after a successful merge
NextSpanOnSuccess(merged, sp, part) == IF merged THEN part.span ELSE sp

\* `span = part.span;` at the end of the loop body
NextSpan(merged, sp, part) == part.span

\* entry, up to the first `parts.next()`
FormatHeader ==
    /\ pc = "build"
    /\ todo = <<>>
    /\ shape' = FormatShape(inShape)
    /\ LET ne == NonEmptyParts(parts)
       IN IF ne = <<>>
          THEN /\ result' = <<>>
               /\ pc' = "done"
               /\ UNCHANGED <<iter, span>>
          ELSE /\ result' = Head(ne).snippet
               /\ span' = Head(ne).span
               /\ iter' = Tail(ne)
               /\ pc' = "fold"
    /\ UNCHANGED <<src, ast, inShape, parts, calls, todo>>
    /\ UNCHANGED listVars

\* one turn of `for part in parts`
FoldStep ==
    /\ pc = "fold"
    /\ iter # <<>>
    /\ LET part == Head(iter)
           comments_span == Between(span, part.span)
           merged == CombineStrsWithMissingComments(
                         src, result, part.snippet, comments_span, shape, TRUE)
       IN /\ calls' = Append(calls, [prev |-> result, next |-> part.snippet,
                                     gap |-> comments_span, shape |-> shape,
                                     ok |-> merged.ok])
          /\ result' = IF merged.ok THEN merged.val ELSE Fallback(result, part)
          /\ span' = NextSpan(merged.ok, span, part)
          /\ iter' = Tail(iter)
    /\ UNCHANGED <<src, ast, inShape, parts, pc, shape, todo>>
    /\ UNCHANGED listVars

\* the loop is exhausted: `result` is returned
FoldReturn ==
    /\ pc = "fold"
    /\ iter = <<>>
    /\ pc' = "done"
    /\ UNCHANGED <<src, ast, inShape, parts, shape, iter, result, span, calls, todo>>
    /\ UNCHANGED listVars

Next ==
    \/ BuildVisibility
    \/ BuildSafety
    \/ BuildKeyword
    \/ BuildIdent
    \/ FormatHeader
    \/ FoldStep
    \/ FoldReturn

Spec == Init /\ [][Next]_vars

----------------------------------------------------------------------------
(* Properties of format_header *)

\* the fragments that have text, in input order
Kept == SelectSeq(parts, LAMBDA x : Len(x.snippet) > 0)

KeptTexts == [k \in 1..Len(Kept) |-> Kept[k].snippet]

\* the source text between the k-th and the (k+1)-th fragment that has text
GapText(k) == SubSeq(src, Kept[k].span.hi + 1, Kept[k + 1].span.lo)

HasComment(t) == FindFrom(t, BlockOpen, 1) # 0 \/ FindFrom(t, LineOpen, 1) # 0

Started == pc \in {"fold", "done"}

\* the text format_header has after call k of the merger
ResultAfter(k) == IF k < Len(calls) THEN calls[k + 1].prev ELSE result

\* C1: when no gap between consecutive non-empty fragments holds a comment,
\* the header is the non-empty fragments' texts in input order joined by one
\* space each, on one line, whatever the width of the shape passed in; the
\* fragments [Inherited, Default, "fn", "foo"] give exactly "fn foo".
C1_SingleLine ==
    /\ \A k \in 1..Len(calls) : calls[k].shape.unbounded
    /\ (pc = "done" /\ \A k \in 1..(Len(Kept) - 1) : ~HasComment(GapText(k)))
        => /\ result = JoinWith(KeptTexts, <<SP>>)
           /\ \A p \in 1..Len(result) : result[p] # NL
           /\ (Len(parts) = 4 /\ parts[1].snippet = <<>> /\ parts[2].snippet = <<>>
                 /\ parts[3].snippet = FN /\ parts[4].snippet = FOO)
                => result = <<"f", "n", " ", "f", "o", "o">>

C1_Witness ==
    /\ pc = "done"
    /\ Len(parts) = 4
    /\ ast.vis.kind = "Inherited"
    /\ ast.safety.kind = "Default"
    /\ ~HasComment(GapText(1))
    /\ inShape.width = 0
    /\ result = <<"f", "n", " ", "f", "o", "o">>

\* C2: the fragments with empty text are removed before assembling: the
\* merger never sees an empty text; when no fragment has text the header is
\* empty and the merger was not called, and when one has, the header is that
\* fragment's text.
C2_EmptyDropped ==
    /\ Started => \A k \in 1..Len(iter) : iter[k].snippet # <<>>
    /\ \A k \in 1..Len(calls) : calls[k].prev # <<>> /\ calls[k].next # <<>>
    /\ (pc = "done" /\ Len(Kept) = 0) => (result = <<>> /\ calls = <<>>)
    /\ (pc = "done" /\ Len(Kept) = 1) => (result = Kept[1].snippet /\ calls = <<>>)

C2_Witness ==
    /\ pc = "done"
    /\ Len(parts) = 2
    /\ Len(Kept) = 0
    /\ result = <<>>
    /\ calls = <<>>

\* C4: a failed merge stays inside format_header: the text after the failed
\* step is the running text, one space, the next fragment's text; every
\* later gap is still handed to the merger, with the same shape, and the
\* call ends with one merge attempted per gap.
C4_FallbackLocal ==
    /\ pc \in {"build", "fold", "done"}
    /\ \A k \in 1..Len(calls) :
          /\ ~calls[k].ok =>
                ResultAfter(k) = calls[k].prev \o <<SP>> \o calls[k].next
          /\ calls[k].shape = calls[1].shape
          /\ calls[k].next = Kept[k + 1].snippet
    /\ pc = "done" => Len(calls) = Max({Len(Kept) - 1, 0})

C4_Witness ==
    /\ pc = "done"
    /\ Len(calls) = 3
    /\ ~calls[1].ok
    /\ calls[2].ok
    /\ HasComment(GapText(2))

\* C5 (as claimed): every comment in the source text of a gap between
\* consecutive non-empty fragments is in the returned header exactly as
\* often as it is in the gaps, also when the merge fell back.
C5_NoCommentLost ==
    pc = "done" =>
        \A k \in 1..(Len(Kept) - 1) :
            \A c \in {CommentsOf(GapText(k))[n] : n \in 1..Len(CommentsOf(GapText(k)))} :
                CountOcc(result, c)
                    = Cardinality({<<j, n>> \in (1..(Len(Kept) - 1)) \X (1..3) :
                                      /\ n <= Len(CommentsOf(GapText(j)))
                                      /\ CommentsOf(GapText(j))[n] = c})

\* the texts expected in the header, in order: each fragment, followed by
\* the comments the merger found in the gap after it
RECURSIVE ExpectedOrder(_)
ExpectedOrder(k) ==
    IF k > Len(calls) + 1 \/ k > Len(Kept) THEN <<>>
    ELSE <<Kept[k].snippet>>
           \o (IF k <= Len(calls) /\ calls[k].ok THEN CommentsOf(GapText(k)) ELSE <<>>)
           \o ExpectedOrder(k + 1)

\* the texts occur in t one after the other, without overlap, from `from` on
RECURSIVE OccurInOrder(_, _, _)
OccurInOrder(t, texts, from) ==
    IF texts = <<>> THEN TRUE
    ELSE LET p == FindFrom(t, Head(texts), from)
         IN p # 0 /\ OccurInOrder(t, Tail(texts), p + Len(Head(texts)))

C9_GapBetweenKept ==
    /\ \A k \in 1..Len(calls) :
          calls[k].gap = [lo |-> Kept[k].span.hi, hi |-> Kept[k + 1].span.lo]
    /\ Started /\ Kept # <<>> => span = Kept[Len(calls) + 1].span

C9_Witness ==
    /\ pc = "done"
    /\ Len(parts) = 4
    /\ parts[2].snippet = <<>> /\ parts[2].span = DUMMY_SP
    /\ Len(calls) = 2
    /\ ~calls[1].ok
    /\ calls[2].gap.lo = Kept[2].span.hi

\* the keyword part among the parts built (no other part has its text)
IsKeywordPart(part) == part.snippet = ast.kw.keyword

\* C10: the keyword fragment's text is the keyword and its span is the
\* len(keyword) bytes of the keyword inside the enclosing span: the span
\* holds the keyword and no byte of a comment, and the comments of the
\* enclosing span are all before or after it.
C10_KeywordSpan ==
    \A i \in 1..Len(parts) :
        IsKeywordPart(parts[i]) =>
            LET sp == parts[i].span
                enc == ast.kw.span
            IN /\ sp.hi = sp.lo + Len(ast.kw.keyword)
               /\ enc.lo <= sp.lo /\ sp.hi <= enc.hi
               /\ Snippet(src, sp) = ast.kw.keyword
               /\ CommentsOf(Snippet(src, enc))
                    = CommentsOf(Snippet(src, MkSp(enc.lo, sp.lo)))
                        \o CommentsOf(Snippet(src, MkSp(sp.hi, enc.hi)))

C10_Witness ==
    /\ \E i \in 1..Len(parts) : IsKeywordPart(parts[i]) /\ parts[i].span.lo > ast.kw.span.lo
    /\ Len(CommentsOf(Snippet(src, ast.kw.span))) = 3
    /\ OccursAt(Snippet(src, ast.kw.span), <<"/", "*", "f", "n", "*", "/">>, 1)

----------------------------------------------------------------------------
(* HeaderPart::visibility over the visibilities a parser can hand over:    *)
(* a restricted path of up to MaxSegs named segments, global (its first    *)
(* segment the root, which is written as nothing) or not.  A path marked   *)
(* global that has no segment is the malformed input the `expect` is for.  *)

SegNames == {CRATE, SELF, SUPER, SOME, MOD}

IdentOf(name) == [name |-> name, span |-> DUMMY_SP]

RootSegment == IdentOf(<<>>)

NamedSegments ==
    UNION {[1..n -> {IdentOf(nm) : nm \in SegNames}] : n \in 0..MaxSegs}

Paths ==
    {[global |-> FALSE, segments |-> s] : s \in NamedSegments}
      \cup {[global |-> TRUE, segments |-> <<RootSegment>> \o s] : s \in NamedSegments}
      \cup {[global |-> TRUE, segments |-> <<>>]}

Visibilities ==
    {[kind |-> "Public", path |-> NoPath, span |-> DUMMY_SP],
     [kind |-> "Inherited", path |-> NoPath, span |-> DUMMY_SP]}
      \cup {[kind |-> "Restricted", path |-> p, span |-> DUMMY_SP] : p \in Paths}

NoNode == [kind |-> "Default", span |-> DUMMY_SP]

InitVis ==
    /\ src = <<>>
    /\ \E v \in Visibilities :
          ast = [vis |-> v, safety |-> NoNode,
                 kw |-> [keyword |-> FN, span |-> DUMMY_SP],
                 ident |-> IdentOf(FOO)]
    /\ inShape = NoShape
    /\ todo = <<"visibility">>
    /\ InitLocals
    /\ InitList

NextVis ==
    \/ BuildVisibility
    \/ FormatHeader
    \/ FoldReturn

SpecVis == InitVis /\ [][NextVis]_vars

\* the names of the segments, the root of a global path left out
WrittenNames(path) ==
    LET segs == path.segments
        from == IF path.global THEN 2 ELSE 1
    IN [k \in 1..(Len(segs) - from + 1) |-> segs[k + from - 1].name]

\* the text of a visibility whose prefix is "" when `single` holds
VisibilityText(vis, single) ==
    CASE vis.kind = "Public" -> PUB
      [] vis.kind = "Inherited" -> <<>>
      [] vis.kind = "Restricted" ->
            PUB \o <<"(">> \o (IF single THEN <<>> ELSE <<"i", "n", " ">>)
              \o JoinWith(WrittenNames(vis.path), PATHSEP) \o <<")">>

IsOneKeyword(names) == Len(names) = 1 /\ names[1] \in {CRATE, SELF, SUPER}

SegmentNames(path) == [k \in 1..Len(path.segments) |-> path.segments[k].name]

\* C3 (as claimed): Public gives "pub", Inherited "", Restricted(path)
\* "pub(" prefix joinedPath ")" with prefix "" exactly when the path is the
\* single segment crate, self or super, for every path, global ones too.
C3_VisibilityTable ==
    \A i \in 1..Len(parts) :
        parts[i].snippet
            = VisibilityText(ast.vis, IsOneKeyword(SegmentNames(ast.vis.path)))

\* C3 (amended): the same table, the prefix being "" exactly when the
\* segments that are written (a global path's root left out) are the single
\* segment crate, self or super.
C3_VisibilityRule ==
    \A i \in 1..Len(parts) :
        parts[i].snippet
            = VisibilityText(ast.vis, IsOneKeyword(WrittenNames(ast.vis.path)))

C3_Witness ==
    /\ Len(parts) = 1
    /\ ast.vis.kind = "Restricted"
    /\ ast.vis.path.global
    /\ SegmentNames(ast.vis.path) = <<<<>>, SUPER>>
    /\ parts[1].snippet = PUB \o <<"(">> \o SUPER \o <<")">>

\* what the fragment's text holds between "pub(" and ")", an "in " removed
WrittenPath(snippet) ==
    LET inner == SubSeq(snippet, 5, Len(snippet) - 1)
    IN IF OccursAt(inner, <<"i", "n", " ">>, 1) THEN SubSeq(inner, 4, Len(inner))
       ELSE inner

\* C7: of a global path the root segment is consumed and gives no text; a
\* global path without any segment makes the construction panic and leaves
\* no fragment; of a non-global path every segment is written.
C7_GlobalRoot ==
    LET path == ast.vis.path
    IN /\ (ast.vis.kind = "Restricted" /\ path.global /\ path.segments = <<>>)
            => (parts = <<>> /\ (pc = "panic" \/ todo # <<>>))
       /\ pc = "panic"
            => (ast.vis.kind = "Restricted" /\ path.global /\ path.segments = <<>>)
       /\ \A i \in 1..Len(parts) :
            ast.vis.kind = "Restricted" =>
               /\ OccursAt(parts[i].snippet, PUB \o <<"(">>, 1)
               /\ parts[i].snippet[Len(parts[i].snippet)] = ")"
               /\ WrittenPath(parts[i].snippet) = JoinWith(WrittenNames(path), PATHSEP)
               /\ ~path.global =>
                    Len(WrittenNames(path)) = Len(path.segments)

C7_Witness ==
    /\ Len(parts) = 1
    /\ ast.vis.kind = "Restricted"
    /\ ast.vis.path.global
    /\ Len(ast.vis.path.segments) = 3
    /\ parts[1].snippet = PUB \o <<"(", "i", "n", " ">> \o SOME \o PATHSEP \o MOD \o <<")">>

----------------------------------------------------------------------------
(* List layout under the Mixed tactic with Block indent.  An item is       *)
(* written with its separator "," when it has one; items on a line are one *)
(* space apart; lcfg.width is the width left for a line after its indent.  *)

COMMA == ","

NItems == Len(items)

ItemsText == JoinWith(items, <<COMMA, SP>>)

\* the single-line rendering fits (it ends in a separator under Always)
FitsOneLine ==
    Len(ItemsText) + (IF lcfg.policy = "Always" THEN 1 ELSE 0) <= lcfg.width

\* trailingSeparatorPolicy: whether the final item gets a separator
TrailingSeparator ==
    \/ lcfg.policy = "Always"
    \/ lcfg.policy = "MultilineOnly" /\ ~FitsOneLine

HasSeparator(k) == k < NItems \/ TrailingSeparator

ItemText(k) == items[k] \o (IF HasSeparator(k) THEN <<COMMA>> ELSE <<>>)

\* variant: the space before the item is not counted
MixedBreaksNoSpace(len, w, width) == len > 0 /\ len + w > width

\* a new line starts when the item, with its separator and the space
\* before it, would exceed the width
MixedBreaks(len, w, width) == len > 0 /\ len + 1 + w > width

\* the next item is written
WriteItem ==
    /\ pc = "list"
    /\ lidx < NItems
    /\ LET k == lidx + 1
           text == ItemText(k)
       IN IF MixedBreaks(lineLen, Len(text), lcfg.width)
          THEN /\ out' = out \o <<NL>> \o Spaces(lcfg.indent) \o text
               /\ lineLen' = Len(text)
          ELSE /\ out' = out \o (IF lineLen > 0 THEN <<SP>> ELSE <<>>) \o text
               /\ lineLen' = lineLen + (IF lineLen > 0 THEN 1 ELSE 0) + Len(text)
    /\ lidx' = lidx + 1
    /\ UNCHANGED <<items, lcfg, pc>>
    /\ UNCHANGED headerVars

\* every item is written: the text is returned
ListReturn ==
    /\ pc = "list"
    /\ lidx = NItems
    /\ pc' = "ldone"
    /\ UNCHANGED listVars
    /\ UNCHANGED headerVars

Letters == <<"a", "b", "c", "d", "e", "f", "g", "h">>

\* item k of a generated list: its own letter, n times
ItemOf(k, n) == [i \in 1..n |-> Letters[k]]

GeneratedItems ==
    UNION {{[k \in 1..n |-> ItemOf(k, lens[k])] : lens \in [1..n -> 1..MaxItemLen]} :
              n \in 1..MaxItems}

Policies == {"Always", "Never", "MultilineOnly"}

\* the two imports of the Mixed test: the first fits its line, the second
\* is laid out in a block indented by 4 within 100 columns
TestImportsComment ==
    << <<"F", "i", "n", "d", "U", "n", "c", "o", "m", "m", "e", "n", "t",
       "e", "d">>,
       <<"c", "o", "n", "t", "a", "i", "n", "s", "_", "c", "o", "m", "m",
       "e", "n", "t">>,
       <<"r", "e", "c", "o", "v", "e", "r", "_", "c", "o", "m", "m", "e",
       "n", "t", "_", "r", "e", "m", "o", "v", "e", "d">>,
       <<"r", "e", "w", "r", "i", "t", "e", "_", "c", "o", "m", "m", "e",
       "n", "t">> >>

TestImportsLists ==
    << <<"D", "e", "f", "i", "n", "i", "t", "i", "v", "e", "L", "i", "s",
       "t", "T", "a", "c", "t", "i", "c">>,
       <<"L", "i", "s", "t", "F", "o", "r", "m", "a", "t", "t", "i", "n",
       "g">>,
       <<"L", "i", "s", "t", "I", "t", "e", "m">>,
       <<"L", "i", "s", "t", "T", "a", "c", "t", "i", "c">>,
       <<"S", "e", "p", "a", "r", "a", "t", "o", "r", "T", "a", "c", "t",
       "i", "c">>,
       <<"d", "e", "f", "i", "n", "i", "t", "i", "v", "e", "_", "t", "a",
       "c", "t", "i", "c">>,
       <<"i", "t", "e", "m", "i", "z", "e", "_", "l", "i", "s", "t">>,
       <<"s", "h", "a", "p", "e", "_", "f", "o", "r", "_", "t", "a", "c",
       "t", "i", "c">>,
       <<"s", "t", "r", "u", "c", "t", "_", "l", "i", "t", "_", "f", "o",
       "r", "m", "a", "t", "t", "i", "n", "g">>,
       <<"s", "t", "r", "u", "c", "t", "_", "l", "i", "t", "_", "s", "h",
       "a", "p", "e">>,
       <<"s", "t", "r", "u", "c", "t", "_", "l", "i", "t", "_", "t", "a",
       "c", "t", "i", "c">>,
       <<"w", "r", "i", "t", "e", "_", "l", "i", "s", "t">> >>

TestLayoutComment ==
    <<"F", "i", "n", "d", "U", "n", "c", "o", "m", "m", "e", "n", "t", "e",
    "d", ",", " ", "c", "o", "n", "t", "a", "i", "n", "s", "_", "c", "o",
    "m", "m", "e", "n", "t", ",", " ", "r", "e", "c", "o", "v", "e", "r",
    "_", "c", "o", "m", "m", "e", "n", "t", "_", "r", "e", "m", "o", "v",
    "e", "d", ",", " ", "r", "e", "w", "r", "i", "t", "e", "_", "c", "o",
    "m", "m", "e", "n", "t">>

TestLayoutLists ==
    <<"D", "e", "f", "i", "n", "i", "t", "i", "v", "e", "L", "i", "s", "t",
    "T", "a", "c", "t", "i", "c", ",", " ", "L", "i", "s", "t", "F", "o",
    "r", "m", "a", "t", "t", "i", "n", "g", ",", " ", "L", "i", "s", "t",
    "I", "t", "e", "m", ",", " ", "L", "i", "s", "t", "T", "a", "c", "t",
    "i", "c", ",", " ", "S", "e", "p", "a", "r", "a", "t", "o", "r", "T",
    "a", "c", "t", "i", "c", ",", " ", "d", "e", "f", "i", "n", "i", "t",
    "i", "v", "e", "_", "t", "a", "c", "t", "i", "c", ",", "\n", " ", " ",
    " ", " ", "i", "t", "e", "m", "i", "z", "e", "_", "l", "i", "s", "t",
    ",", " ", "s", "h", "a", "p", "e", "_", "f", "o", "r", "_", "t", "a",
    "c", "t", "i", "c", ",", " ", "s", "t", "r", "u", "c", "t", "_", "l",
    "i", "t", "_", "f", "o", "r", "m", "a", "t", "t", "i", "n", "g", ",",
    " ", "s", "t", "r", "u", "c", "t", "_", "l", "i", "t", "_", "s", "h",
    "a", "p", "e", ",", " ", "s", "t", "r", "u", "c", "t", "_", "l", "i",
    "t", "_", "t", "a", "c", "t", "i", "c", ",", "\n", " ", " ", " ", " ",
    "w", "r", "i", "t", "e", "_", "l", "i", "s", "t", ",">>

\* the widths left in a line of 100 columns: beside `use comment::{` and
\* `};` for the first import, after the block indent for the second
TestInputs ==
    {[items |-> TestImportsComment,
      cfg |-> [width |-> 84, indent |-> 4, policy |-> "MultilineOnly"]],
     [items |-> TestImportsLists,
      cfg |-> [width |-> 96, indent |-> 4, policy |-> "MultilineOnly"]]}

InitLayout ==
    /\ \/ /\ items \in GeneratedItems
          /\ lcfg \in [width : 1..MaxListWidth, indent : 0..MaxIndent, policy : Policies]
       \/ \E t \in TestInputs : items = t.items /\ lcfg = t.cfg
    /\ lidx = 0
    /\ lineLen = 0
    /\ out = <<>>
    /\ pc = "list"
    /\ src = <<>>
    /\ ast = [vis |-> [kind |-> "Inherited", path |-> NoPath, span |-> DUMMY_SP],
              safety |-> NoNode,
              kw |-> [keyword |-> FN, span |-> DUMMY_SP],
              ident |-> IdentOf(FOO)]
    /\ inShape = NoShape
    /\ todo = <<>>
    /\ parts = <<>>
    /\ shape = NoShape
    /\ iter = <<>>
    /\ result = <<>>
    /\ span = DUMMY_SP
    /\ calls = <<>>

NextLayout ==
    \/ WriteItem
    \/ ListReturn

SpecLayout == InitLayout /\ [][NextLayout]_vars

----------------------------------------------------------------------------
(* Properties of the Mixed layout *)

RECURSIVE SplitOn(_, _)
SplitOn(t, ch) ==
    LET ps == {p \in 1..Len(t) : t[p] = ch}
    IN IF ps = {} THEN <<t>>
       ELSE <<SubSeq(t, 1, Min(ps) - 1)>> \o SplitOn(SubSeq(t, Min(ps) + 1, Len(t)), ch)

Lines == SplitOn(out, NL)

\* line k without its indent
Content(k) ==
    IF k = 1 THEN Lines[1] ELSE SubSeq(Lines[k], lcfg.indent + 1, Len(Lines[k]))

\* the items of line k, each with its separator
Words(k) == SplitOn(Content(k), SP)

AllWords == Flatten([k \in 1..Len(Lines) |-> Words(k)])

\* what the claim says of every layout but the width of the lines
MixedLayoutShape ==
    /\ AllWords = [k \in 1..NItems |-> ItemText(k)]
    /\ FitsOneLine => Len(Lines) = 1
    /\ \A k \in 1..(Len(Lines) - 1) :
          Len(Content(k)) + 1 + Len(Words(k + 1)[1]) > lcfg.width
    /\ Lines[1][1] # SP
    /\ \A k \in 2..Len(Lines) :
          /\ \A i \in 1..lcfg.indent : Lines[k][i] = SP
          /\ Lines[k][lcfg.indent + 1] # SP
    /\ items = TestImportsComment => out = TestLayoutComment
    /\ items = TestImportsLists => out = TestLayoutLists

\* C8 (as claimed): a list that fits is on one line; otherwise the items
\* are packed in input order, a line ending exactly when the next item with
\* its separator would exceed the width, so that every line is within the
\* width and none could take the first item of the next; every line after
\* the first begins at the indent.
C8_MixedAsClaimed ==
    pc = "ldone" =>
        /\ MixedLayoutShape
        /\ \A k \in 1..Len(Lines) : Len(Content(k)) <= lcfg.width

\* C8 (amended): as claimed, but only a line that holds two items or more
\* is within the width for certain: a line is wider than the width exactly
\* when its single item, with its separator, is.
C8_MixedPacking ==
    pc = "ldone" =>
        /\ MixedLayoutShape
        /\ \A k \in 1..Len(Lines) :
              Len(Content(k)) > lcfg.width
                  <=> (Len(Words(k)) = 1 /\ Len(Words(k)[1]) > lcfg.width)

C8_Witness ==
    /\ pc = "ldone"
    /\ items = << <<"a">>, <<"b", "b">>, <<"c", "c", "c">> >>
    /\ lcfg = [width |-> 6, indent |-> 1, policy |-> "Never"]
    /\ out = <<"a", ",", " ", "b", "b", ",", NL, " ", "c", "c", "c">>

====
